---- MODULE Spec2Model ----
(***************************************************************************)
(* State-machine model of the sitechime backend (src/api): the JsonData    *)
(* store and its viewset, the public read endpoint, the OpenAI proxy view  *)
(* (token resolution in dispatch, the rate-limited post handler, the       *)
(* upstream forwarder configured by retries) and the Terms-and-Conditions  *)
(* acceptance endpoints.                                                   *)
(***************************************************************************)
EXTENDS Integers, FiniteSets, Sequences, TLC

\* ------------------------------------------------------------------------
\* Bounds of the model
\* ------------------------------------------------------------------------
MaxRecords == 2

\* ------------------------------------------------------------------------
\* Value sets
\* ------------------------------------------------------------------------
Users == {"alice", "bob"}
Anonymous == "AnonymousUser"
Actors == Users \cup {Anonymous}
Data == {"d1", "d2"}
Pks == 1..MaxRecords

\* JsonData.uuid: default=uuid.uuid4, editable=False, unique=True.  Every row
\* gets its own UUID at creation and keeps it; UUIDs are modelled as numbers
\* disjoint from 0, which stands for an absent header / query parameter.
None == 0
uuid4(pk) == 100 + pk
\* a UUID-shaped value that is bound to no row
UnboundUuid == uuid4(MaxRecords + 1)
TokenValues == {None, UnboundUuid} \cup {uuid4(pk) : pk \in Pks}

\* the server's request workers; a worker handles one request at a time
Workers == {"w1"}
Clients == {"p1", "p2"}
Configs == {"c1", "c2"}
Ips == {"ip1", "ip2"}
Methods == {"POST", "GET"}

\* ratelimit(key='user', rate='1/m', method='POST'): 1 request per 60 seconds
Limit == 1
Period == 60
\* OpenAIProxyView.retries = 1  # Allow one retry
retries == 1
\* RateLimitedProxyView.retries = 0
retries_base == 0

\* the clock advances in half periods up to MaxTime (seconds)
MaxTime == 60
\* number of proxy requests received in a run
MaxRequests == 2
\* number of rows of the TncAcceptance table
MaxTnc == 2
TickStep == Period \div 2

VARIABLES jsonData, resp, req, nreq, cache, now, passed, tnc, tproc

vars == <<jsonData, resp, req, nreq, cache, now, passed, tnc, tproc>>

\* ------------------------------------------------------------------------
\* JsonData table (models.py)
\* ------------------------------------------------------------------------
FreeRow == [st |-> "free", user |-> Anonymous, data |-> "d1", is_public |-> FALSE]
GoneRow == [st |-> "gone", user |-> Anonymous, data |-> "d1", is_public |-> FALSE]
Row(u, d, pub) == [st |-> "row", user |-> u, data |-> d, is_public |-> pub]

IsRow(pk) == jsonData[pk].st = "row"

NoResponse == [op |-> "none", user |-> Anonymous, status |-> 0, pks |-> {}]
Response(op, u, status, pks) == [op |-> op, user |-> u, status |-> status, pks |-> pks]

\* permissions.IsAuthenticated
IsAuthenticated(u) == u \in Users

\* the queryset with the owner filter forgotten: JsonData.objects.all()
get_queryset_all(u) == {pk \in Pks : IsRow(pk)}

\* JsonData.objects.filter(user=user)
get_queryset(u) == {pk \in Pks : IsRow(pk) /\ jsonData[pk].user = u}

\* JsonData.make_public / make_private: set the flag and save the row
model_make_public(pk) == [jsonData EXCEPT ![pk].is_public = TRUE]
model_make_private(pk) == [jsonData EXCEPT ![pk].is_public = FALSE]

Terminal == {"ratelimited", "upstream_failed", "completed", "truncated"}

IdleRequest ==
    [pc |-> "idle", method |-> "GET", session |-> Anonymous, uuid_value |-> None,
     user |-> Anonymous, via |-> "none", counted |-> FALSE, attempts |-> 0,
     streamed |-> FALSE]

IdleClient == [pc |-> "idle", config_id |-> "", ip_address |-> "", pk |-> 0]

InitRest ==
    /\ resp = NoResponse
    /\ req = [r \in Workers |-> IdleRequest]
    /\ nreq = 0
    /\ cache = [k \in Actors |-> 0]
    /\ passed = [k \in Actors |-> 0]
    /\ now = 0
    /\ tnc = << >>
    /\ tproc = [p \in Clients |-> IdleClient]

\* the state after migration: empty tables, empty cache, no request in flight
Init ==
    /\ jsonData = [pk \in Pks |-> FreeRow]
    /\ InitRest

\* ------------------------------------------------------------------------
\* JsonDataViewSet and public_json_data (views.py)
\* ------------------------------------------------------------------------
JsonFrame == UNCHANGED <<req, nreq, cache, now, passed, tnc, tproc>>

\* POST /json-data/ : perform_create saves a new row owned by request.user
create(u, d, pub) ==
    /\ JsonFrame
    /\ IF ~IsAuthenticated(u)
       THEN /\ resp' = Response("create", u, 403, {})
            /\ UNCHANGED jsonData
       ELSE \E pk \in Pks :
              /\ jsonData[pk].st = "free"
              /\ \A q \in Pks : q < pk => jsonData[q].st # "free"
              /\ jsonData' = [jsonData EXCEPT ![pk] = Row(u, d, pub)]
              /\ resp' = Response("create", u, 201, {pk})

\* GET /json-data/
list(u) ==
    /\ JsonFrame
    /\ UNCHANGED jsonData
    /\ IF ~IsAuthenticated(u)
       THEN resp' = Response("list", u, 403, {})
       ELSE resp' = Response("list", u, 200, get_queryset(u))

\* GET /json-data/<pk>/ : get_object() looks pk up in get_queryset()
retrieve(u, pk) ==
    /\ JsonFrame
    /\ UNCHANGED jsonData
    /\ IF ~IsAuthenticated(u)
       THEN resp' = Response("retrieve", u, 403, {})
       ELSE IF pk \in get_queryset(u)
            THEN resp' = Response("retrieve", u, 200, {pk})
            ELSE resp' = Response("retrieve", u, 404, {})

\* PUT /json-data/<pk>/ : user and uuid are read-only, data and is_public are not
update(u, pk, d, pub) ==
    /\ JsonFrame
    /\ IF ~IsAuthenticated(u)
       THEN /\ resp' = Response("update", u, 403, {})
            /\ UNCHANGED jsonData
       ELSE IF pk \in get_queryset(u)
            THEN /\ jsonData' = [jsonData EXCEPT ![pk].data = d, ![pk].is_public = pub]
                 /\ resp' = Response("update", u, 200, {pk})
            ELSE /\ resp' = Response("update", u, 404, {})
                 /\ UNCHANGED jsonData

\* DELETE /json-data/<pk>/
destroy(u, pk) ==
    /\ JsonFrame
    /\ IF ~IsAuthenticated(u)
       THEN /\ resp' = Response("destroy", u, 403, {})
            /\ UNCHANGED jsonData
       ELSE IF pk \in get_queryset(u)
            THEN /\ jsonData' = [jsonData EXCEPT ![pk] = GoneRow]
                 /\ resp' = Response("destroy", u, 204, {})
            ELSE /\ resp' = Response("destroy", u, 404, {})
                 /\ UNCHANGED jsonData

\* POST /json-data/<pk>/make_public/
make_public(u, pk) ==
    /\ JsonFrame
    /\ IF ~IsAuthenticated(u)
       THEN /\ resp' = Response("make_public", u, 403, {})
            /\ UNCHANGED jsonData
       ELSE IF pk \in get_queryset(u)
            THEN /\ jsonData' = model_make_public(pk)
                 /\ resp' = Response("make_public", u, 200, {pk})
            ELSE /\ resp' = Response("make_public", u, 404, {})
                 /\ UNCHANGED jsonData

\* POST /json-data/<pk>/make_private/
make_private(u, pk) ==
    /\ JsonFrame
    /\ IF ~IsAuthenticated(u)
       THEN /\ resp' = Response("make_private", u, 403, {})
            /\ UNCHANGED jsonData
       ELSE IF pk \in get_queryset(u)
            THEN /\ jsonData' = model_make_private(pk)
                 /\ resp' = Response("make_private", u, 200, {pk})
            ELSE /\ resp' = Response("make_private", u, 404, {})
                 /\ UNCHANGED jsonData

\* the lookup with the is_public filter forgotten
public_lookup_any(uuid) == {pk \in Pks : IsRow(pk) /\ uuid4(pk) = uuid}

\* JsonData.objects.get(uuid=uuid, is_public=True); uuid is unique, so at most one row
public_lookup(uuid) == {pk \in Pks : IsRow(pk) /\ uuid4(pk) = uuid /\ jsonData[pk].is_public}

\* GET /public/json-data/<uuid>/ : get_object_or_404(JsonData, uuid=uuid, is_public=True)
public_json_data(u, uuid) ==
    /\ JsonFrame
    /\ UNCHANGED jsonData
    /\ IF public_lookup(uuid) # {}
       THEN resp' = Response("public_json_data", u, 200, public_lookup(uuid))
       ELSE resp' = Response("public_json_data", u, 404, {})

NextJson ==
    \/ \E u \in Actors, d \in Data, pub \in BOOLEAN : create(u, d, pub)
    \/ \E u \in Actors : list(u)
    \/ \E u \in Actors, pk \in Pks : retrieve(u, pk)
    \/ \E u \in Actors, pk \in Pks, d \in Data, pub \in BOOLEAN : update(u, pk, d, pub)
    \/ \E u \in Actors, pk \in Pks : destroy(u, pk)
    \/ \E u \in Actors, pk \in Pks : make_public(u, pk)
    \/ \E u \in Actors, pk \in Pks : make_private(u, pk)
    \/ \E u \in Actors, t \in TokenValues \ {None} : public_json_data(u, t)

SpecJson == Init /\ [][NextJson]_vars

ViewSetOps == {"create", "list", "retrieve", "update", "destroy", "make_public", "make_private"}

\* C10: every row a json-data viewset call returns is owned by the calling,
\* authenticated user; every row any call changes (creates, updates, deletes,
\* publishes, unpublishes) is owned by the authenticated user who called; and
\* public_json_data returns a row only while its is_public is true.
C10_OwnerScoped ==
    /\ [](resp.op \in ViewSetOps =>
            \A pk \in resp.pks :
                jsonData[pk].st = "row" /\ jsonData[pk].user = resp.user /\ resp.user \in Users)
    /\ [](resp.op = "public_json_data" =>
            \A pk \in resp.pks : jsonData[pk].st = "row" /\ jsonData[pk].is_public)
    /\ [][\A pk \in Pks :
            jsonData'[pk] # jsonData[pk] =>
                /\ resp'.op \in ViewSetOps
                /\ resp'.user \in Users
                /\ resp'.user = IF jsonData[pk].st = "row" THEN jsonData[pk].user
                                 ELSE jsonData'[pk].user]_vars

\* C10 witness: bob asks for alice's row and gets 404 while the row exists,
\* private, and bob owns a row of his own
C10_Witness ==
    /\ resp.op = "retrieve" /\ resp.user = "bob" /\ resp.status = 404
    /\ jsonData[1].st = "row" /\ jsonData[1].user = "alice" /\ ~jsonData[1].is_public
    /\ jsonData[2].st = "row" /\ jsonData[2].user = "bob"

\* ------------------------------------------------------------------------
\* OpenAIProxyView (views.py): dispatch, post, and the ProxyView forwarder
\* ------------------------------------------------------------------------
ProxyFrame == UNCHANGED <<jsonData, tnc, tproc>>

\* request.headers.get('X-Config-Key') or request.GET.get('uuid')
uuid_value(hdr, qry) == IF hdr # None THEN hdr ELSE qry

\* "if uuid_value:" and the lookup did not raise JsonData.DoesNotExist
token_resolves(t) == t # None /\ public_lookup(t) # {}

\* request.user when a failed lookup falls back to the row's owner
resolved_user_owner(s, t) ==
    IF t # None /\ public_lookup_any(t) # {}
    THEN jsonData[CHOOSE pk \in public_lookup_any(t) : TRUE].user ELSE s

\* request.user when the session is tried first and the token only without one
resolved_user_session_first(s, t) ==
    IF s \notin Users /\ token_resolves(t)
    THEN jsonData[CHOOSE pk \in public_lookup(t) : TRUE].user ELSE s

\* request.user after the try block: json_data.user on success, else unchanged
resolved_user(s, t) ==
    IF token_resolves(t) THEN jsonData[CHOOSE pk \in public_lookup(t) : TRUE].user ELSE s

\* OpenAIProxyView.dispatch up to the call of super().dispatch: the request
\* arrives with method m, session user s (AnonymousUser without a session) and
\* the token header / query parameter; nothing is rejected here.
dispatch(r, m, s, hdr, qry) ==
    /\ req[r].pc \in {"idle"} \cup Terminal
    /\ nreq < MaxRequests
    /\ nreq' = nreq + 1
    /\ LET t == uuid_value(hdr, qry) IN
       req' = [req EXCEPT ![r] =
                 [pc |-> "dispatched", method |-> m, session |-> s, uuid_value |-> t,
                  user |-> resolved_user(s, t),
                  via |-> IF token_resolves(t) THEN "token"
                          ELSE IF s \in Users THEN "session" ELSE "none",
                  counted |-> FALSE, attempts |-> 0, streamed |-> FALSE]]
    /\ resp' = NoResponse
    /\ UNCHANGED <<cache, now, passed>>
    /\ ProxyFrame

\* The request leaves dispatch for its handler: from here on the pipeline works
\* from the method and request.user (the REMOTE_USER of the upstream request).
Handled(r, pc) ==
    [req[r] EXCEPT !.pc = pc, !.session = Anonymous, !.uuid_value = None]

\* key='user': the limiter's cache key is request.user's pk
ratelimit_key(r) == req[r].user

\* RateLimitedProxyView.post under ratelimit(key='user', rate='1/m', method='POST'):
\* the hit is counted in the key's current window; above Limit the decorator
\* raises Ratelimited and the handler body (the forward) is not run.
post(r) ==
    /\ req[r].pc = "dispatched"
    /\ req[r].method = "POST"
    /\ LET k == ratelimit_key(r)
           count == cache[k] + 1
       IN /\ cache' = [cache EXCEPT ![k] = count]
          /\ IF count > Limit
             THEN /\ req' = [req EXCEPT ![r] = Handled(r, "ratelimited")]
                  /\ UNCHANGED passed
             ELSE /\ req' = [req EXCEPT ![r] = [Handled(r, "forwarding") EXCEPT !.counted = TRUE]]
                  /\ passed' = [passed EXCEPT ![k] = @ + 1]
    /\ resp' = NoResponse
    /\ UNCHANGED <<now, nreq>>
    /\ ProxyFrame

\* Any other method: only post carries the decorator, the request goes to the
\* forwarder without touching the limiter.
proxy_other(r) ==
    /\ req[r].pc = "dispatched"
    /\ req[r].method # "POST"
    /\ req' = [req EXCEPT ![r] = Handled(r, "forwarding")]
    /\ passed' = [passed EXCEPT ![ratelimit_key(r)] = @ + 1]
    /\ resp' = NoResponse
    /\ UNCHANGED <<cache, now, nreq>>
    /\ ProxyFrame

\* the forwarder of the base class: retries = 0
may_retry_base(r) == req[r].attempts < retries_base

\* whether a failed connection attempt may be followed by another one
may_retry(r) == req[r].attempts < retries

\* A connection attempt to the upstream fails: retried while retries remain,
\* otherwise the forwarder gives up.
connect_failed(r) ==
    /\ req[r].pc = "forwarding"
    /\ req' = [req EXCEPT ![r].attempts = @ + 1,
                          ![r].pc = IF may_retry(r) THEN "forwarding" ELSE "upstream_failed"]
    /\ resp' = NoResponse
    /\ UNCHANGED <<cache, now, passed, nreq>>
    /\ ProxyFrame

\* A connection attempt succeeds: status and headers are relayed, stream = True
connect_ok(r) ==
    /\ req[r].pc = "forwarding"
    /\ req' = [req EXCEPT ![r].attempts = @ + 1, ![r].pc = "streaming"]
    /\ resp' = NoResponse
    /\ UNCHANGED <<cache, now, passed, nreq>>
    /\ ProxyFrame

\* A chunk of the body is relayed to the caller
stream_chunk(r) ==
    /\ req[r].pc = "streaming"
    /\ ~req[r].streamed
    /\ req' = [req EXCEPT ![r].streamed = TRUE]
    /\ resp' = NoResponse
    /\ UNCHANGED <<cache, now, passed, nreq>>
    /\ ProxyFrame

\* The upstream closes the body: the response is complete
stream_end(r) ==
    /\ req[r].pc = "streaming"
    /\ req' = [req EXCEPT ![r].pc = "completed"]
    /\ resp' = NoResponse
    /\ UNCHANGED <<cache, now, passed, nreq>>
    /\ ProxyFrame

\* The upstream connection breaks while the body is relayed
stream_interrupted(r) ==
    /\ req[r].pc = "streaming"
    /\ req' = [req EXCEPT ![r].pc = "truncated"]
    /\ resp' = NoResponse
    /\ UNCHANGED <<cache, now, passed, nreq>>
    /\ ProxyFrame

Window(t) == t \div Period

\* Time passes.  The limiter's cache key contains the window, so a new window
\* starts from an empty counter.
Tick ==
    /\ now + TickStep <= MaxTime
    /\ now' = now + TickStep
    /\ IF Window(now') # Window(now)
       THEN /\ cache' = [k \in Actors |-> 0]
            /\ passed' = [k \in Actors |-> 0]
       ELSE UNCHANGED <<cache, passed>>
    /\ resp' = NoResponse
    /\ UNCHANGED <<jsonData, req, nreq, tnc, tproc>>

\* The ?uuid values tried with header hdr: every value when the header is
\* absent; with a header present the parameter is never read, and an absent
\* and a present one stand for all.
QueryValues(hdr) == IF hdr = None THEN TokenValues ELSE {None, UnboundUuid}

\* a deployment in which each user owns one private JsonData row
InitProxy ==
    /\ jsonData = [pk \in Pks |-> IF pk = 1 THEN Row("alice", "d1", FALSE)
                                  ELSE IF pk = 2 THEN Row("bob", "d1", FALSE)
                                  ELSE FreeRow]
    /\ InitRest

NextProxy ==
    \/ \E r \in Workers, m \in Methods, s \in Actors, hdr \in TokenValues :
          \E qry \in QueryValues(hdr) : dispatch(r, m, s, hdr, qry)
    \/ \E r \in Workers : post(r)
    \/ \E r \in Workers : proxy_other(r)
    \/ \E r \in Workers : connect_failed(r)
    \/ \E r \in Workers : connect_ok(r)
    \/ \E r \in Workers : stream_chunk(r)
    \/ \E r \in Workers : stream_end(r)
    \/ \E r \in Workers : stream_interrupted(r)
    \/ \E pk \in Pks : make_public(jsonData[pk].user, pk)
    \/ \E pk \in Pks : make_private(jsonData[pk].user, pk)
    \/ Tick

SpecProxy == InitProxy /\ [][NextProxy]_vars

\* ------------------------------------------------------------------------
\* Properties of the proxy
\* ------------------------------------------------------------------------
\* the request has been handed to the forwarder (the upstream is contacted)
Forwarded(r) ==
    req[r].pc \in {"forwarding", "streaming", "completed", "truncated", "upstream_failed"}

\* worker r has just run dispatch on a new request
Dispatching(r) == req[r].pc # "dispatched" /\ req'[r].pc = "dispatched"

\* a row with uuid t exists and is public
PublicRow(t) == \E pk \in Pks : jsonData[pk].st = "row" /\ uuid4(pk) = t /\ jsonData[pk].is_public
OwnerOf(t) == jsonData[CHOOSE pk \in Pks : uuid4(pk) = t].user

C2_TokenAuthIffPublic ==
    [][\A r \in Workers :
         (Dispatching(r) /\ req'[r].uuid_value # None)
            => LET t == req'[r].uuid_value IN
               /\ (req'[r].via = "token") <=> PublicRow(t)
               /\ req'[r].via = "token" => req'[r].user = OwnerOf(t)
               /\ req'[r].session = Anonymous => (req'[r].user \in Users <=> PublicRow(t))]_vars

\* C2 witness: the second request of a run presents the token of an existing
\* row that is private, and is not authenticated by it
C2_Witness ==
    \E r \in Workers :
        /\ nreq = 2
        /\ req[r].pc = "dispatched"
        /\ req[r].uuid_value = uuid4(1)
        /\ req[r].via = "none"
        /\ jsonData[1].st = "row" /\ ~jsonData[1].is_public

\* C3 (as claimed): per identity at most Limit requests pass the gate to the
\* upstream within one window; the next one is rejected and not forwarded.
C3_AtMostLimitPerWindow == \A k \in Actors : passed[k] <= Limit

\* C4 (as claimed): a request is handed to the forwarder only if the limiter
\* counted and admitted it.
C4_ForwardedOnlyIfAdmitted == \A r \in Workers : Forwarded(r) => req[r].counted

\* C5 (as claimed): the session is tried first; a request with a valid session
\* keeps the session's user as its identity whatever token it carries.
C5_SessionFirst ==
    \A r \in Workers :
        (req[r].pc = "dispatched" /\ req[r].session \in Users) => req[r].user = req[r].session

\* C5 (amended): the token is tried first whenever one is presented; when it
\* resolves, the row's owner replaces the session's user, and the session's
\* user is the identity only when no token is presented or it does not resolve.
C5_TokenOverridesSession ==
    [][\A r \in Workers :
         Dispatching(r)
            => LET t == req'[r].uuid_value IN
               req'[r].user = IF t # None /\ PublicRow(t) THEN OwnerOf(t) ELSE req'[r].session]_vars

\* C5 witness: session of alice, public token of bob's row, identity bob
C5_Witness ==
    \E r \in Workers :
        /\ req[r].pc = "dispatched"
        /\ req[r].session = "alice"
        /\ req[r].uuid_value = uuid4(2)
        /\ req[r].user = "bob"

\* C6 (as claimed): in a window that follows a rollover exactly Limit requests
\* of an identity are admitted: never more, and one is rejected only when Limit
\* were admitted in that window.
C6_ExactlyLimitAfterRollover ==
    Window(now) >= 1 =>
        \A k \in Actors : passed[k] <= Limit /\ (cache[k] > Limit => passed[k] = Limit)

TncFrame == UNCHANGED <<jsonData, req, nreq, cache, now, passed>>

\* TncAcceptance.objects.filter(config_id=c, ip_address=ip): the table has no
\* unique constraint on the pair
TncMatching(c, ip) ==
    {i \in 1..Len(tnc) : tnc[i].config_id = c /\ tnc[i].ip_address = ip}

\* accept_tnc, first half: validation, then TncAcceptanceSerializer.create runs
\* TncAcceptance.objects.get(config_id, ip_address).  Only DoesNotExist is
\* caught; the query and the later save are separate statements, no
\* transaction or lock spans them.
accept_tnc_get(p, c, ip) ==
    /\ tproc[p].pc = "idle"
    /\ UNCHANGED tnc
    /\ TncFrame
    /\ IF c = ""
       THEN /\ resp' = Response("accept_tnc", Anonymous, 400, {})
            /\ UNCHANGED tproc
       ELSE IF Cardinality(TncMatching(c, ip)) > 1
       THEN /\ resp' = Response("accept_tnc", Anonymous, 500, TncMatching(c, ip))
            /\ UNCHANGED tproc
       ELSE IF TncMatching(c, ip) = {}
       THEN /\ resp' = NoResponse
            /\ tproc' = [tproc EXCEPT ![p] =
                           [pc |-> "missing", config_id |-> c, ip_address |-> ip, pk |-> 0]]
       ELSE /\ resp' = NoResponse
            /\ tproc' = [tproc EXCEPT ![p] =
                           [pc |-> "found", config_id |-> c, ip_address |-> ip,
                            pk |-> CHOOSE i \in TncMatching(c, ip) : TRUE]]

\* accept_tnc, second half: instance.save() of the row found, or
\* super().create(validated_data) of a new row; then 201
accept_tnc_save(p) ==
    /\ tproc[p].pc \in {"found", "missing"}
    /\ TncFrame
    /\ IF tproc[p].pc = "found"
       THEN /\ tnc' = [tnc EXCEPT ![tproc[p].pk].accepted_at = now]
            /\ resp' = Response("accept_tnc", Anonymous, 201, {tproc[p].pk})
       ELSE /\ Len(tnc) < MaxTnc
            /\ tnc' = Append(tnc, [config_id |-> tproc[p].config_id,
                                   ip_address |-> tproc[p].ip_address,
                                   accepted_at |-> now])
            /\ resp' = Response("accept_tnc", Anonymous, 201, {Len(tnc) + 1})
    /\ tproc' = [tproc EXCEPT ![p] = IdleClient]

\* check_tnc_acceptance: TncAcceptance.objects.get(config_id, ip_address);
\* one row answers accepted True, DoesNotExist answers accepted False,
\* MultipleObjectsReturned is not caught
check_tnc_acceptance(c, ip) ==
    /\ UNCHANGED <<tnc, tproc>>
    /\ TncFrame
    /\ IF Cardinality(TncMatching(c, ip)) > 1
       THEN resp' = Response("check_tnc_acceptance", Anonymous, 500, TncMatching(c, ip))
       ELSE resp' = Response("check_tnc_acceptance", Anonymous, 200, TncMatching(c, ip))

NextTnc ==
    \/ \E p \in Clients, c \in Configs \cup {""}, ip \in Ips : accept_tnc_get(p, c, ip)
    \/ \E p \in Clients : accept_tnc_save(p)
    \/ \E c \in Configs, ip \in Ips : check_tnc_acceptance(c, ip)
    \/ Tick

SpecTnc == Init /\ [][NextTnc]_vars

\* C9 (as claimed): the table holds at most one row per (config_id,
\* ip_address), and check_tnc_acceptance always answers without an error.
C9_OneRowPerPair ==
    /\ \A c \in Configs, ip \in Ips : Cardinality(TncMatching(c, ip)) <= 1
    /\ resp.op = "check_tnc_acceptance" => resp.status = 200

\* ---------------------------------------------------------------------
\* Stages of one proxy request.  dispatch receives and authenticates
\* ("dispatched"), post is the quota check, "forwarding" and "streaming"
\* are the forwarder's stages.
\* ---------------------------------------------------------------------

\* The stage changes the gate allows: a new request starts at dispatch; the
\* quota check leads to forwarding or to the quota rejection; forwarding
\* leads to streaming or to the upstream failure; streaming leads to
\* completion.
GateSteps ==
    ({"idle", "completed", "ratelimited", "upstream_failed"} \X {"dispatched"})
        \cup {<<"dispatched", "forwarding">>, <<"dispatched", "ratelimited">>,
               <<"forwarding", "streaming">>, <<"forwarding", "upstream_failed">>,
               <<"streaming", "completed">>}

\* C11: each request passes through the stages in the order received,
\* authenticating, quota check, forwarding, streaming, completed and skips
\* none (it enters forwarding only out of a quota check that counted it), and
\* it ends in one of completed, quota rejection (out of the quota check) or
\* upstream failure (out of forwarding, with no byte streamed); the
\* authentication rejection has no state in the code.
C11_StagesInOrder ==
    [][\A r \in Workers :
          req'[r].pc # req[r].pc =>
              /\ <<req[r].pc, req'[r].pc>> \in GateSteps
              /\ req'[r].pc = "forwarding" => req'[r].counted
              /\ req'[r].pc = "upstream_failed" => ~req'[r].streamed]_vars

====
